---- MODULE Spec2Model ----
(***************************************************************************)
(* The cart controller (getCart, addToCart, updateCartItem,                *)
(* removeFromCart, clearCart) over the two store tables it uses,           *)
(* shopping_cart and products.  Every handler is cut at its store calls    *)
(* (its awaits): one action is one store call together with the            *)
(* synchronous code that follows it up to the next call or the response.   *)
(* The authentication middleware (authenticateToken, isAdmin) and the      *)
(* ProductsPage component are modelled beside it, each in a variable of    *)
(* its own and with a specification of its own.                            *)
(***************************************************************************)
EXTENDS Integers, FiniteSets, Sequences, TLC

\* ---------------------------------------------------------------- bounds
MaxStock == 2
MaxPrice == 2
\* steps per whole number where quantities may be fractions
Scale    == 2
MaxRows  == 2
\* products in the answer of the products API
MaxList  == 2

Users    == {"u1", "u2"}
Products == {"p1", "p2"}
Procs    == {"r1", "r2"}
Single   == {"r1"}

\* a product id that references no product, and a missing (falsy) one
ProductIds == Products \cup {"px", ""}
RowIds     == 1..MaxRows

\* request-body values of `quantity`: a number, a string, or absent
Num(n)  == [t |-> "number", v |-> n]
Str     == [t |-> "string", v |-> 0]
Undef   == [t |-> "undefined", v |-> 0]
Quantities == {Num(n) : n \in -1..(MaxStock + 1)} \cup {Str, Undef}

\* the outcomes of one store call: FALSE it answers, TRUE it reports an error
Faults   == {FALSE, TRUE}
NoFault  == {FALSE}

\* ------------------------------------------------------------ error texts
ErrInvalidAdd    == "Invalid input: product_id and quantity are required"
ErrInvalidUpdate == "Invalid input: quantity is required and must be a positive number"
ErrProduct       == "Product not found"
ErrStock         == "Not enough stock available"
ErrItem          == "Cart item not found"
ErrFetch         == "Error fetching cart"
ErrAdd           == "Error adding item to cart"
ErrUpdate        == "Error updating cart item"
ErrRemove        == "Error removing item from cart"
ErrClear         == "Error clearing cart"
MsgCleared       == "Cart cleared successfully"

VARIABLES
  products,       \* table products: id -> [price, stock_quantity]
  shopping_cart,  \* table shopping_cart: set of rows [id, user_id, product_id, quantity]
  nextId,         \* the id the next inserted row gets
  pc,             \* where each request handler stands
  req,            \* the request each handler serves
  product,        \* addToCart / updateCartItem: the product row read
  existingItem,   \* addToCart: the cart row read for (user, product)
  cartItem,       \* updateCartItem: the cart row read for (id, user)
  res,            \* the response sent
  pre,            \* history: shopping_cart when the latest request arrived
  auth,           \* middleware: the request passing authenticateToken and isAdmin
  page            \* products page: the state of the ProductsPage component

vars == <<products, shopping_cart, nextId, pc, req, product, existingItem,
          cartItem, res, pre, auth, page>>

\* the state of the cart controller, of the middleware and of the products page
cartVars == <<products, shopping_cart, nextId, pc, req, product, existingItem,
              cartItem, res, pre>>

\* ------------------------------------------------------------- null values
NoReq      == [op |-> "none", userId |-> "", product_id |-> "", id |-> 0,
               quantity |-> Undef]
NoProduct  == [id |-> "", stock_quantity |-> 0]
NoItem     == [id |-> 0, quantity |-> 0]
NoCartItem == [product_id |-> ""]
NoCart     == [items |-> {}, total |-> 0]
NoRes      == [status |-> 0, error |-> "", message |-> "", hasCart |-> FALSE,
               cart |-> NoCart]

\* ----------------------------------------------------------------- helpers
RECURSIVE SumItems(_)
SumItems(items) ==
  IF items = {} THEN 0
  ELSE LET item == CHOOSE i \in items : TRUE
       IN  item.product.price * item.quantity + SumItems(items \ {item})

\* mutant: the cart is joined with the price the products started with
SelectCart_mut(userId) ==
  { [id |-> r.id, quantity |-> r.quantity,
     product |-> [id |-> r.product_id,
                  price |-> 1,
                  stock_quantity |-> products[r.product_id].stock_quantity]]
    : r \in {x \in shopping_cart : x.user_id = userId} }

\* .from('shopping_cart').select('id, quantity, products(...)').eq('user_id', userId)
SelectCart(userId) ==
  { [id |-> r.id, quantity |-> r.quantity,
     product |-> [id |-> r.product_id,
                  price |-> products[r.product_id].price,
                  stock_quantity |-> products[r.product_id].stock_quantity]]
    : r \in {x \in shopping_cart : x.user_id = userId} }

CartTotal(items) == SumItems(items)

CartBody(userId) ==
  [items |-> SelectCart(userId), total |-> CartTotal(SelectCart(userId))]

ErrorRes(status, error) ==
  [status |-> status, error |-> error, message |-> "", hasCart |-> FALSE,
   cart |-> NoCart]

CartRes(status, userId) ==
  [status |-> status, error |-> "", message |-> "", hasCart |-> TRUE,
   cart |-> CartBody(userId)]

MessageRes(message) ==
  [status |-> 200, error |-> "", message |-> message, hasCart |-> FALSE,
   cart |-> NoCart]

\* what is kept of a response once a later one has been sent: its status and texts
Summary(response) == [response EXCEPT !.hasCart = FALSE, !.cart = NoCart]

\* the handler of p sends `response` and ends
Respond(p, response) ==
  /\ res' = [q \in Procs |-> IF q = p THEN response ELSE Summary(res[q])]
  /\ pc' = [pc EXCEPT ![p] = "done"]
  /\ product' = [product EXCEPT ![p] = NoProduct]
  /\ existingItem' = [existingItem EXCEPT ![p] = NoItem]
  /\ cartItem' = [cartItem EXCEPT ![p] = NoCartItem]

Goto(p, label) ==
  /\ pc' = [pc EXCEPT ![p] = label]
  /\ res' = res

KeepLocals == UNCHANGED <<product, existingItem, cartItem>>
KeepStore  == UNCHANGED <<shopping_cart, nextId>>

\* const { product_id, quantity = 1 } = req.body
AddQuantity(r) == IF r.quantity.t = "undefined" THEN Num(1) ELSE r.quantity

\* !product_id || typeof quantity !== 'number' || quantity <= 0
AddInvalid(r) ==
  \/ r.product_id = ""
  \/ AddQuantity(r).t # "number"
  \/ AddQuantity(r).v <= 0

\* mutant: only a negative quantity is refused
UpdateInvalid_mut(r) ==
  \/ r.quantity.t # "number"
  \/ r.quantity.v < 0

\* !quantity || typeof quantity !== 'number' || quantity <= 0
UpdateInvalid(r) ==
  \/ r.quantity.t = "undefined"
  \/ (r.quantity.t = "number" /\ r.quantity.v = 0)
  \/ r.quantity.t # "number"
  \/ r.quantity.v <= 0

\* ---------------------------------------------------------------- requests
GetRequests(Us) == {[NoReq EXCEPT !.op = "getCart", !.userId = u] : u \in Us}
AddRequests(Us, PIds, Qs) ==
  {[NoReq EXCEPT !.op = "addToCart", !.userId = u, !.product_id = i,
                 !.quantity = q] : u \in Us, i \in PIds, q \in Qs}
UpdateRequests(Us, Qs) ==
  {[NoReq EXCEPT !.op = "updateCartItem", !.userId = u, !.id = i,
                 !.quantity = q] : u \in Us, i \in RowIds, q \in Qs}
RemoveRequests(Us) ==
  {[NoReq EXCEPT !.op = "removeFromCart", !.userId = u, !.id = i]
     : u \in Us, i \in RowIds}
ClearRequests(Us) == {[NoReq EXCEPT !.op = "clearCart", !.userId = u] : u \in Us}

Requests(Us, PIds, Qs) ==
  GetRequests(Us) \cup AddRequests(Us, PIds, Qs) \cup UpdateRequests(Us, Qs)
    \cup RemoveRequests(Us) \cup ClearRequests(Us)

\* every request body, well-formed or not
AllRequests == Requests(Users, ProductIds, Quantities)

\* the well-formed requests of the users Us for product p1
ValidQuantities == {Num(n) : n \in 1..MaxStock}
ValidRequests(Us) == Requests(Us, {"p1"}, ValidQuantities)

FirstLabel(op) ==
  CASE op = "getCart"        -> "get_select"
    [] op = "addToCart"      -> "add_product"
    [] op = "updateCartItem" -> "upd_item"
    [] op = "removeFromCart" -> "rem_delete"
    [] op = "clearCart"      -> "clr_delete"

\* a request arrives at an idle handler (req.user.id is the authenticated user)
Begin(p, Reqs, track) ==
  /\ pc[p] \in {"idle", "done"}
  /\ \E r \in Reqs :
       /\ req' = [req EXCEPT ![p] = r]
       /\ pc' = [pc EXCEPT ![p] = FirstLabel(r.op)]
  /\ res' = [res EXCEPT ![p] = NoRes]
  /\ pre' = IF track THEN shopping_cart ELSE {}
  /\ UNCHANGED <<products, shopping_cart, nextId, product, existingItem, cartItem>>

\* ----------------------------------------------------------------- getCart
getCart(p, F) ==
  /\ pc[p] = "get_select"
  /\ \E err \in F :
       IF err THEN Respond(p, ErrorRes(500, ErrFetch))
       ELSE Respond(p, CartRes(200, req[p].userId))
  /\ UNCHANGED <<products, shopping_cart, nextId, req, pre>>

\* --------------------------------------------------------------- addToCart
\* validation, then the product lookup and the first stock check
addToCart_product(p, F) ==
  /\ pc[p] = "add_product"
  /\ LET r == req[p]
         quantity == AddQuantity(r).v
     IN  IF AddInvalid(r)
         THEN Respond(p, ErrorRes(400, ErrInvalidAdd))
         ELSE \E err \in F :
                IF err \/ r.product_id \notin Products
                THEN Respond(p, ErrorRes(404, ErrProduct))
                ELSE IF products[r.product_id].stock_quantity < quantity
                THEN Respond(p, ErrorRes(400, ErrStock))
                ELSE /\ Goto(p, "add_check")
                     /\ product' = [product EXCEPT ![p] =
                          [id |-> r.product_id,
                           stock_quantity |-> products[r.product_id].stock_quantity]]
                     /\ UNCHANGED <<existingItem, cartItem>>
  /\ UNCHANGED <<products, shopping_cart, nextId, req, pre>>

\* .select('id, quantity').eq('user_id', userId).eq('product_id', product.id).single():
\* the row when exactly one matches, else error PGRST116 and no data
ExistingRows(userId, productId) ==
  {x \in shopping_cart : x.user_id = userId /\ x.product_id = productId}

\* mutant: the quantity already in the cart is left out of the second check
AddExceedsStock_mut(existing, quantity, stock) == quantity > stock

\* existingItem.quantity + quantity > product.stock_quantity
AddExceedsStock(existing, quantity, stock) == existing + quantity > stock

\* the lookup of the user's line for the product and the second stock check;
\* PGRST116 (no single row) is not thrown, the handler goes on to insert
addToCart_check(p, F) ==
  /\ pc[p] = "add_check"
  /\ LET r == req[p]
         quantity == AddQuantity(r).v
         rows == ExistingRows(r.userId, product[p].id)
     IN  \E err \in F :
           IF err THEN Respond(p, ErrorRes(500, ErrAdd))
           ELSE IF Cardinality(rows) = 1
           THEN LET row == CHOOSE x \in rows : TRUE
                IN  IF AddExceedsStock(row.quantity, quantity, product[p].stock_quantity)
                    THEN Respond(p, ErrorRes(400, ErrStock))
                    ELSE /\ Goto(p, "add_update")
                         /\ existingItem' = [existingItem EXCEPT ![p] =
                              [id |-> row.id, quantity |-> row.quantity]]
                         /\ UNCHANGED <<product, cartItem>>
           ELSE /\ Goto(p, "add_insert")
                /\ KeepLocals
  /\ UNCHANGED <<products, shopping_cart, nextId, req, pre>>

\* mutant: the add overwrites the quantity
NewQuantity_mut(existing, quantity) == quantity

\* const newQuantity = existingItem.quantity + quantity
NewQuantity(existing, quantity) == existing + quantity

\* .update({ quantity }).eq('id', id).eq('user_id', userId)
UpdateRowOfUser(id, userId, quantity) ==
  {IF x.id = id /\ x.user_id = userId THEN [x EXCEPT !.quantity = quantity] ELSE x
     : x \in shopping_cart}

\* the update of the existing line; .single() fails when no row was updated
addToCart_update(p, F) ==
  /\ pc[p] = "add_update"
  /\ LET r == req[p]
         newQuantity == NewQuantity(existingItem[p].quantity, AddQuantity(r).v)
         hit == {x \in shopping_cart : x.id = existingItem[p].id /\ x.user_id = r.userId}
     IN  \E err \in F :
           IF err THEN Respond(p, ErrorRes(500, ErrAdd)) /\ KeepStore
           ELSE IF hit = {} THEN Respond(p, ErrorRes(500, ErrAdd)) /\ KeepStore
           ELSE /\ shopping_cart' = UpdateRowOfUser(existingItem[p].id, r.userId, newQuantity)
                /\ nextId' = nextId
                /\ Goto(p, "add_fetch")
                /\ KeepLocals
  /\ UNCHANGED <<products, req, pre>>

\* .insert([{ user_id, product_id, quantity }])
InsertRow(userId, productId, quantity) ==
  shopping_cart \cup {[id |-> nextId, user_id |-> userId, product_id |-> productId,
                       quantity |-> quantity]}

\* the insert of a new line; the table hands out ids 1..MaxRows and ids are
\* never used again
addToCart_insert(p, F) ==
  /\ pc[p] = "add_insert"
  /\ nextId <= MaxRows
  /\ \E err \in F :
       IF err THEN Respond(p, ErrorRes(500, ErrAdd)) /\ KeepStore
       ELSE /\ shopping_cart' = InsertRow(req[p].userId, product[p].id, AddQuantity(req[p]).v)
            /\ nextId' = nextId + 1
            /\ Goto(p, "add_fetch")
            /\ KeepLocals
  /\ UNCHANGED <<products, req, pre>>

\* the re-read of the cart for the response
addToCart_fetch(p, F) ==
  /\ pc[p] = "add_fetch"
  /\ \E err \in F :
       IF err THEN Respond(p, ErrorRes(500, ErrAdd))
       ELSE Respond(p, CartRes(201, req[p].userId))
  /\ UNCHANGED <<products, shopping_cart, nextId, req, pre>>

\* ---------------------------------------------------------- updateCartItem
\* mutant: the lookup leaves out the owner
OwnedRows_mut(id, userId) == {x \in shopping_cart : x.id = id}

\* .select('product_id').eq('id', id).eq('user_id', userId).single()
OwnedRows(id, userId) == {x \in shopping_cart : x.id = id /\ x.user_id = userId}

\* validation, then the lookup of the line by id and owner
updateCartItem_item(p, F) ==
  /\ pc[p] = "upd_item"
  /\ LET r == req[p]
         rows == OwnedRows(r.id, r.userId)
     IN  IF UpdateInvalid(r)
         THEN Respond(p, ErrorRes(400, ErrInvalidUpdate))
         ELSE \E err \in F :
                IF err \/ rows = {}
                THEN Respond(p, ErrorRes(404, ErrItem))
                ELSE /\ Goto(p, "upd_product")
                     /\ cartItem' = [cartItem EXCEPT ![p] =
                          [product_id |-> (CHOOSE x \in rows : TRUE).product_id]]
                     /\ UNCHANGED <<product, existingItem>>
  /\ UNCHANGED <<products, shopping_cart, nextId, req, pre>>

\* mutant: the comparison is not strict
UpdateExceedsStock_mut(quantity, stock) == quantity >= stock

\* quantity > product.stock_quantity
UpdateExceedsStock(quantity, stock) == quantity > stock

\* the product lookup and the stock check
updateCartItem_product(p, F) ==
  /\ pc[p] = "upd_product"
  /\ LET r == req[p]
         pid == cartItem[p].product_id
     IN  \E err \in F :
           IF err \/ pid \notin Products
           THEN Respond(p, ErrorRes(404, ErrProduct))
           ELSE IF UpdateExceedsStock(r.quantity.v, products[pid].stock_quantity)
           THEN Respond(p, ErrorRes(400, ErrStock))
           ELSE /\ Goto(p, "upd_update")
                /\ product' = [product EXCEPT ![p] =
                     [id |-> pid, stock_quantity |-> products[pid].stock_quantity]]
                /\ UNCHANGED <<existingItem, cartItem>>
  /\ UNCHANGED <<products, shopping_cart, nextId, req, pre>>

\* mutant: the update adds to the quantity
UpdateRow_mut(id, quantity) ==
  {IF x.id = id THEN [x EXCEPT !.quantity = x.quantity + quantity] ELSE x
     : x \in shopping_cart}

\* .update({ quantity }).eq('id', id)
UpdateRow(id, quantity) ==
  {IF x.id = id THEN [x EXCEPT !.quantity = quantity] ELSE x : x \in shopping_cart}

\* the update of the line; .single() fails when no row was updated
updateCartItem_update(p, F) ==
  /\ pc[p] = "upd_update"
  /\ LET r == req[p]
         hit == {x \in shopping_cart : x.id = r.id}
     IN  \E err \in F :
           IF err THEN Respond(p, ErrorRes(500, ErrUpdate)) /\ KeepStore
           ELSE IF hit = {} THEN Respond(p, ErrorRes(500, ErrUpdate)) /\ KeepStore
           ELSE /\ shopping_cart' = UpdateRow(r.id, r.quantity.v)
                /\ nextId' = nextId
                /\ Goto(p, "upd_fetch")
                /\ KeepLocals
  /\ UNCHANGED <<products, req, pre>>

\* the re-read of the cart for the response
updateCartItem_fetch(p, F) ==
  /\ pc[p] = "upd_fetch"
  /\ \E err \in F :
       IF err THEN Respond(p, ErrorRes(500, ErrUpdate))
       ELSE Respond(p, CartRes(200, req[p].userId))
  /\ UNCHANGED <<products, shopping_cart, nextId, req, pre>>

\* ---------------------------------------------------------- removeFromCart
\* mutant: the delete leaves out the owner
DeleteRow_mut(id, userId) == {x \in shopping_cart : x.id # id}

\* .delete().eq('id', id).eq('user_id', userId)
DeleteRow(id, userId) ==
  {x \in shopping_cart : ~(x.id = id /\ x.user_id = userId)}

removeFromCart_delete(p, F) ==
  /\ pc[p] = "rem_delete"
  /\ \E err \in F :
       IF err THEN Respond(p, ErrorRes(500, ErrRemove)) /\ KeepStore
       ELSE /\ shopping_cart' = DeleteRow(req[p].id, req[p].userId)
            /\ nextId' = nextId
            /\ Goto(p, "rem_fetch")
            /\ KeepLocals
  /\ UNCHANGED <<products, req, pre>>

removeFromCart_fetch(p, F) ==
  /\ pc[p] = "rem_fetch"
  /\ \E err \in F :
       IF err THEN Respond(p, ErrorRes(500, ErrRemove))
       ELSE Respond(p, CartRes(200, req[p].userId))
  /\ UNCHANGED <<products, shopping_cart, nextId, req, pre>>

\* --------------------------------------------------------------- clearCart
\* mutant: the delete leaves out the owner
DeleteRowsOf_mut(userId) == {}

\* .delete().eq('user_id', userId)
DeleteRowsOf(userId) == {x \in shopping_cart : x.user_id # userId}

clearCart(p, F) ==
  /\ pc[p] = "clr_delete"
  /\ \E err \in F :
       IF err THEN Respond(p, ErrorRes(500, ErrClear)) /\ KeepStore
       ELSE /\ shopping_cart' = DeleteRowsOf(req[p].userId)
            /\ nextId' = nextId
            /\ Respond(p, MessageRes(MsgCleared))
  /\ UNCHANGED <<products, req, pre>>

\* ------------------------------------------------------------- environment
\* the price of a product is changed by inventory management
SetPrice ==
  /\ \E i \in Products, v \in 1..MaxPrice :
       /\ products[i].price # v
       /\ products' = [products EXCEPT ![i].price = v]
  /\ UNCHANGED <<shopping_cart, nextId, pc, req, product, existingItem,
                 cartItem, res, pre>>

\* the stock of a product is changed by inventory management; it is never
\* negative
SetStock ==
  /\ \E i \in Products, v \in 0..MaxStock :
       /\ products[i].stock_quantity # v
       /\ products' = [products EXCEPT ![i].stock_quantity = v]
  /\ UNCHANGED <<shopping_cart, nextId, pc, req, product, existingItem,
                 cartItem, res, pre>>

\* ------------------------------------------------ authentication middleware
\* req.headers.authorization: absent, present without a second word, or
\* present with a token as its second word
Headers == {"none", "scheme", "bearer"}
\* profiles.role
Roles == {"user", "admin"}
\* the middleware mounted before the handler of a route
Chains == {"auth", "both", "adminOnly"}

\* no request in the middleware; secret tells whether JWT_SECRET is defined.
\* profileResult and userResult are the answers of the two lookups, profile
\* and user are req.profile (its role) and req.user, sent and next count the
\* responses sent and the next() calls of each middleware.
NoAuth(secret) ==
  [pc |-> "idle", secret |-> secret, chain |-> "auth", header |-> "none",
   valid |-> FALSE, userId |-> "", profileResult |-> "pending", userResult |-> "pending",
   profile |-> "none", user |-> "", status |-> 0,
   authSent |-> 0, authNext |-> 0, adminSent |-> 0, adminNext |-> 0]

\* a request arrives at a route with its middleware chain; valid tells
\* whether jwt.verify accepts the token, userId is decodedToken.userId
AuthRequest ==
  /\ auth.pc \in {"idle", "handler", "responded"}
  /\ \E c \in Chains, h \in Headers, v \in BOOLEAN, u \in Users :
       auth' = [NoAuth(auth.secret) EXCEPT
                  !.pc = IF c = "adminOnly" THEN "admin" ELSE "auth_verify",
                  !.chain = c, !.header = h, !.valid = v, !.userId = u]
  /\ UNCHANGED <<cartVars, page>>

\* authHeader.split(' ')[1]
TokenOf(header) == IF header = "bearer" THEN "token" ELSE ""

\* return res.status(status).json(...) in authenticateToken
AuthSend(status) ==
  [auth EXCEPT !.pc = "responded", !.status = status, !.authSent = @ + 1]

\* authenticateToken up to the profile lookup
authenticateToken_verify ==
  /\ auth.pc = "auth_verify"
  /\ auth' = IF auth.header = "none" THEN AuthSend(401)
             ELSE IF TokenOf(auth.header) = "" THEN AuthSend(401)
             ELSE IF ~auth.secret THEN AuthSend(500)
             ELSE IF ~auth.valid THEN AuthSend(401)
             ELSE [auth EXCEPT !.pc = "auth_profile"]
  /\ UNCHANGED <<cartVars, page>>

\* the profile lookup answers with an error, throws, or gives the profile row
authenticateToken_profile ==
  /\ auth.pc = "auth_profile"
  /\ \E result \in {"error", "throw"} \cup Roles :
       auth' = IF result \in {"error", "throw"}
               THEN [AuthSend(500) EXCEPT !.profileResult = result]
               ELSE [auth EXCEPT !.pc = "auth_user", !.profileResult = result]
  /\ UNCHANGED <<cartVars, page>>

\* mutant: only a lookup error is refused
UserRejected_mut(result) == result = "error"

\* userError || !user
UserRejected(result) == result \in {"error", "none"}

\* the user lookup answers with an error, with no user, throws, or gives the
\* user; then req.user and req.profile are set and next() is called
authenticateToken_user ==
  /\ auth.pc = "auth_user"
  /\ \E result \in {"error", "none", "throw", "user"} :
       auth' = IF UserRejected(result)
               THEN [AuthSend(401) EXCEPT !.userResult = result]
               ELSE IF result = "throw"
               THEN [AuthSend(500) EXCEPT !.userResult = result]
               ELSE [auth EXCEPT !.userResult = result,
                                 !.user = auth.userId,
                                 !.profile = auth.profileResult,
                                 !.authNext = @ + 1,
                                 !.pc = IF auth.chain = "both" THEN "admin"
                                        ELSE "handler"]
  /\ UNCHANGED <<cartVars, page>>

\* req.profile.role !== 'admin'
NotAdmin(role) == role # "admin"

isAdmin ==
  /\ auth.pc = "admin"
  /\ auth' = IF auth.profile = "none"
             THEN [auth EXCEPT !.pc = "responded", !.status = 401,
                               !.adminSent = @ + 1]
             ELSE IF NotAdmin(auth.profile)
             THEN [auth EXCEPT !.pc = "responded", !.status = 403,
                               !.adminSent = @ + 1]
             ELSE [auth EXCEPT !.pc = "handler", !.adminNext = @ + 1]
  /\ UNCHANGED <<cartVars, page>>

\* ------------------------------------------------------------ products page
\* product.category, and the values of the three filter controls
Categories        == {"snacks", "fresh"}
CategoryFilters   == {"all"} \cup Categories
Availabilities    == {"all", "available", "preorder"}
Sortings          == {"newest", "price-low", "price-high"}
FilterTypes       == {"category", "availability", "sortBy"}
FilterValues(filterType) ==
  CASE filterType = "category"     -> CategoryFilters
    [] filterType = "availability" -> Availabilities
    [] filterType = "sortBy"       -> Sortings

\* data.products of the API: up to MaxList products, the i-th with id i, the
\* list ordered by creation time, newest first or oldest first
ApiProducts ==
  UNION {[1..n -> [category : Categories, stock_quantity : 0..1,
                   price : 1..MaxPrice]] : n \in 0..MaxList}
ApiList(f, newestFirst) ==
  [i \in DOMAIN f |-> [id |-> i,
                       created_at |-> IF newestFirst THEN Len(f) + 1 - i ELSE i,
                       category |-> f[i].category,
                       stock_quantity |-> f[i].stock_quantity,
                       price |-> f[i].price]]

\* useState: categoryParam is the category of the URL ("" when absent);
\* server is the list the API will answer with, fetched the list received
InitialFilters(categoryParam) ==
  [category     |-> IF categoryParam = "" THEN "all" ELSE categoryParam,
   availability |-> "all",
   sortBy       |-> "newest"]

NoPage ==
  [pc |-> "unmounted", products |-> <<>>, loading |-> TRUE, error |-> FALSE,
   activeFilters |-> InitialFilters(""), server |-> <<>>, fetched |-> <<>>]

MountedPage(categoryParam, server) ==
  [NoPage EXCEPT !.pc = "mounted",
                 !.activeFilters = InitialFilters(categoryParam),
                 !.server = server]

\* the filters of category and availability
Matches(item, filters) ==
  /\ filters.category # "all" => item.category = filters.category
  /\ filters.availability = "available" => item.stock_quantity > 0
  /\ filters.availability = "preorder" => item.stock_quantity = 0

\* the comparator of Array.prototype.sort for each sortBy: negative when a
\* goes before b
Compare(a, b, sortBy) ==
  CASE sortBy = "price-low"  -> a.price - b.price
    [] sortBy = "price-high" -> b.price - a.price
    [] sortBy = "newest"     -> b.created_at - a.created_at

\* stable insertion: x goes before the first element that compares above it
RECURSIVE Insert(_, _, _)
Insert(sorted, x, sortBy) ==
  IF sorted = <<>> THEN <<x>>
  ELSE IF Compare(Head(sorted), x, sortBy) > 0 THEN <<x>> \o sorted
  ELSE <<Head(sorted)>> \o Insert(Tail(sorted), x, sortBy)

\* Array.prototype.sort (stable)
RECURSIVE Sort(_, _)
Sort(list, sortBy) ==
  IF list = <<>> THEN <<>>
  ELSE Insert(Sort(SubSeq(list, 1, Len(list) - 1), sortBy), list[Len(list)], sortBy)

\* the body of the filter effect: filter a copy of the list, sort it
ApplyFilters(list, filters) ==
  LET Keep(item) == Matches(item, filters)
  IN  Sort(SelectSeq(list, Keep), filters.sortBy)

\* the effects after the first render: the fetch starts, and the filter
\* effect puts the filtered (empty) products state back
ProductsPage_mount ==
  /\ page.pc = "mounted"
  /\ page' = [page EXCEPT !.pc = "fetching", !.loading = TRUE,
                          !.products = ApplyFilters(page.products, page.activeFilters)]
  /\ UNCHANGED <<cartVars, auth>>

\* the fetch answers: the list received becomes the products state, or the
\* error is set; loading ends. activeFilters has not changed, so the filter
\* effect does not run.
fetchProducts ==
  /\ page.pc = "fetching"
  /\ \E ok \in BOOLEAN :
       page' = IF ok
               THEN [page EXCEPT !.pc = "ready", !.loading = FALSE,
                                 !.products = page.server,
                                 !.fetched = page.server]
               ELSE [page EXCEPT !.pc = "failed", !.loading = FALSE,
                                 !.error = TRUE]
  /\ UNCHANGED <<cartVars, auth>>

\* a filter control is used (they are rendered when loading and error are
\* off): activeFilters is replaced and the filter effect runs on the
\* products state
updateFilter ==
  /\ ~page.loading /\ ~page.error
  /\ \E filterType \in FilterTypes :
       \E value \in FilterValues(filterType) :
         LET filters == [page.activeFilters EXCEPT ![filterType] = value]
         IN  page' = [page EXCEPT !.activeFilters = filters,
                                  !.products = ApplyFilters(page.products, filters)]
  /\ UNCHANGED <<cartVars, auth>>


\* ---------------------------------------------------------- specifications
\* no request yet, an empty cart table, and the stock of each product from Stocks
Tables(Stocks) ==
  /\ \E stock \in Stocks :
       products = [i \in Products |-> [price |-> 1, stock_quantity |-> stock[i]]]
  /\ shopping_cart = {}
  /\ nextId = 1
  /\ pc = [p \in Procs |-> "idle"]
  /\ req = [p \in Procs |-> NoReq]
  /\ product = [p \in Procs |-> NoProduct]
  /\ existingItem = [p \in Procs |-> NoItem]
  /\ cartItem = [p \in Procs |-> NoCartItem]
  /\ res = [p \in Procs |-> NoRes]
  /\ pre = {}

\* the cart controller alone: no request in the middleware, no page mounted
InitWith(Stocks) == Tables(Stocks) /\ auth = NoAuth(TRUE) /\ page = NoPage

\* p1 fully stocked, p2 with a single unit
InitStock == [i \in Products |-> IF i = "p1" THEN MaxStock ELSE 1]

Init == InitWith({InitStock})

\* p1 fully stocked, p2 sold out or with a single unit
InitSeq == InitWith({[InitStock EXCEPT !["p2"] = s] : s \in {0, 1}})

Step(p, F) ==
  \/ getCart(p, F)
  \/ addToCart_product(p, F)
  \/ addToCart_check(p, F)
  \/ addToCart_update(p, F)
  \/ addToCart_insert(p, F)
  \/ addToCart_fetch(p, F)
  \/ updateCartItem_item(p, F)
  \/ updateCartItem_product(p, F)
  \/ updateCartItem_update(p, F)
  \/ updateCartItem_fetch(p, F)
  \/ removeFromCart_delete(p, F)
  \/ removeFromCart_fetch(p, F)
  \/ clearCart(p, F)

\* one handler at a time: requests run one after the other, the store answers
NextSeq ==
  /\ \/ \E p \in Single : Begin(p, AllRequests, TRUE)
     \/ \E p \in Single : Step(p, NoFault)
  /\ UNCHANGED <<auth, page>>

SpecSeq == InitSeq /\ [][NextSeq]_vars

\* one handler at a time, and any store call may report an error
NextFault ==
  /\ \/ \E p \in Single : Begin(p, AllRequests, TRUE)
     \/ \E p \in Single : Step(p, Faults)
  /\ UNCHANGED <<auth, page>>

SpecFault == InitSeq /\ [][NextFault]_vars

\* one handler at a time, while product prices change
NextPrice ==
  /\ \/ \E p \in Single : Begin(p, Requests(Users, Products, ValidQuantities), TRUE)
     \/ \E p \in Single : Step(p, NoFault)
     \/ SetPrice
  /\ UNCHANGED <<auth, page>>

SpecPrice == Init /\ [][NextPrice]_vars

\* two handlers serving concurrent requests of one user for product p1, with
\* quantities up to one above the largest stock, while the stock changes
StockQuantities == {Num(n) : n \in 1..(MaxStock + 1)}

NextStock ==
  /\ \/ \E p \in Procs : Begin(p, Requests({"u1"}, {"p1"}, StockQuantities), FALSE)
     \/ \E p \in Procs : Step(p, NoFault)
     \/ SetStock
  /\ UNCHANGED <<auth, page>>

SpecStock == Init /\ [][NextStock]_vars

\* two handlers serving concurrent requests of one user (several sessions)
Next ==
  /\ \/ \E p \in Procs : Begin(p, ValidRequests({"u1"}), FALSE)
     \/ \E p \in Procs : Step(p, NoFault)
  /\ UNCHANGED <<auth, page>>

Spec == Init /\ [][Next]_vars

\* two handlers serving concurrent requests of two users, one user each
UserOf(p) == IF p = "r1" THEN "u1" ELSE "u2"

NextIso ==
  /\ \/ \E p \in Procs : Begin(p, ValidRequests({UserOf(p)}), FALSE)
     \/ \E p \in Procs : Step(p, NoFault)
  /\ UNCHANGED <<auth, page>>

SpecIso == Init /\ [][NextIso]_vars

\* N concurrent addToCart calls of one user for one product, on an empty cart
InitAdd ==
  /\ \E S \in 1..MaxStock :
       products = [i \in Products |-> [price |-> 1, stock_quantity |-> S]]
  /\ shopping_cart = {}
  /\ nextId = 1
  /\ pc = [p \in Procs |-> "add_product"]
  /\ req \in [Procs -> AddRequests({"u1"}, {"p1"}, ValidQuantities)]
  /\ product = [p \in Procs |-> NoProduct]
  /\ existingItem = [p \in Procs |-> NoItem]
  /\ cartItem = [p \in Procs |-> NoCartItem]
  /\ res = [p \in Procs |-> NoRes]
  /\ pre = {}
  /\ auth = NoAuth(TRUE)
  /\ page = NoPage

NextAdd ==
  /\ \E p \in Procs :
       \/ addToCart_product(p, NoFault)
       \/ addToCart_check(p, NoFault)
       \/ addToCart_update(p, NoFault)
       \/ addToCart_insert(p, NoFault)
       \/ addToCart_fetch(p, NoFault)
  /\ UNCHANGED <<auth, page>>

SpecAdd == InitAdd /\ [][NextAdd]_vars

\* One handler at a time with request bodies whose quantity is any JSON
\* number. Every number of this specification (request quantities, line
\* quantities, stock) is counted in steps of 1/Scale, so Num(Scale) is the
\* quantity 1 and Num(1) the quantity 1/Scale; the handlers only compare and
\* add these numbers, which is the same on the steps as on the numbers. The
\* store may refuse any call, a write of such a quantity included.
InputQuantities == {Num(n) : n \in -1..(MaxStock * Scale + 1)} \cup {Str}

InitInput ==
  InitWith({[i \in Products |-> IF i = "p1" THEN MaxStock * Scale ELSE Scale]})

NextInput ==
  /\ \/ \E p \in Single : Begin(p, Requests({"u1"}, ProductIds, InputQuantities), TRUE)
     \/ \E p \in Single : Step(p, Faults)
  /\ UNCHANGED <<auth, page>>

SpecInput == InitInput /\ [][NextInput]_vars

\* requests passing the middleware of their route, one at a time
InitAuth ==
  /\ Tables({InitStock})
  /\ auth \in {NoAuth(secret) : secret \in BOOLEAN}
  /\ page = NoPage

NextAuth ==
  \/ AuthRequest
  \/ authenticateToken_verify
  \/ authenticateToken_profile
  \/ authenticateToken_user
  \/ isAdmin

SpecAuth == InitAuth /\ [][NextAuth]_vars

\* the products page from its first render on
InitPage ==
  /\ Tables({InitStock})
  /\ auth = NoAuth(TRUE)
  /\ page \in {MountedPage(c, ApiList(f, newestFirst)) :
                 c \in {""} \cup Categories, f \in ApiProducts,
                 newestFirst \in BOOLEAN}

NextPage ==
  \/ ProductsPage_mount
  \/ fetchProducts
  \/ updateFilter

SpecPage == InitPage /\ [][NextPage]_vars

\* ------------------------------------------------------------------ claims
Done(p, op) == pc[p] = "done" /\ req[p].op = op

\* the lines of (userId, productId) in a set of rows
LinesOf(rows, userId, productId) ==
  {x \in rows : x.user_id = userId /\ x.product_id = productId}

\* C1: addToCart is cumulative. When requests run one after the other,
\* addToCart(U, P, q) succeeds when q and the existing line's quantity plus
\* q fit the stock of P; a successful one on a cart with no line for (U, P)
\* leaves one line for (U, P) with quantity q, and on a cart with a line of
\* quantity e it leaves that same line with quantity e + q.
C1_AddIsCumulative ==
  \A p \in Single :
    LET r      == req[p]
        q      == AddQuantity(r).v
        before == LinesOf(pre, r.userId, r.product_id)
        after  == LinesOf(shopping_cart, r.userId, r.product_id)
    IN  Done(p, "addToCart") =>
          /\ res[p].status = 201 =>
               /\ Cardinality(after) = 1
               /\ before = {} => \A x \in after : x.quantity = q
               /\ \A e \in before :
                    \A x \in after : x.id = e.id /\ x.quantity = e.quantity + q
               /\ shopping_cart \ after = pre \ before
          /\ (/\ ~AddInvalid(r)
              /\ r.product_id \in Products
              /\ q <= products[r.product_id].stock_quantity
              /\ \A e \in before :
                   e.quantity + q <= products[r.product_id].stock_quantity)
             => res[p].status = 201

\* the second of two adds has answered: the line held e, q2 was added
C1_Witness ==
  \E p \in Single :
    /\ Done(p, "addToCart") /\ res[p].status = 201
    /\ \E e \in LinesOf(pre, req[p].userId, req[p].product_id) :
         \E x \in shopping_cart :
           /\ x.id = e.id
           /\ e.quantity >= 1 /\ AddQuantity(req[p]).v >= 1
           /\ x.quantity = e.quantity + AddQuantity(req[p]).v

\* C2: addToCart(U, P, q) on an existing product, with q above the stock or
\* with the existing line's quantity plus q above the stock, answers with the
\* insufficient-stock error and leaves the cart table as it was.
C2_AddOverStockRejected ==
  \A p \in Single :
    LET r      == req[p]
        q      == AddQuantity(r).v
        before == LinesOf(pre, r.userId, r.product_id)
    IN  (/\ Done(p, "addToCart")
         /\ ~AddInvalid(r)
         /\ r.product_id \in Products
         /\ \/ q > products[r.product_id].stock_quantity
            \/ \E e \in before : e.quantity + q > products[r.product_id].stock_quantity)
        => /\ res[p].status = 400
           /\ res[p].error = ErrStock
           /\ shopping_cart = pre

\* an add that fits the stock alone but not on top of the existing line was rejected
C2_Witness ==
  \E p \in Single :
    /\ Done(p, "addToCart") /\ res[p].error = ErrStock
    /\ req[p].product_id \in Products
    /\ AddQuantity(req[p]).v <= products[req[p].product_id].stock_quantity
    /\ \E e \in LinesOf(pre, req[p].userId, req[p].product_id) :
         e.quantity + AddQuantity(req[p]).v > products[req[p].product_id].stock_quantity
    /\ shopping_cart = pre

\* C3: every quantity written to a cart line, by an insert or an update of any
\* of the concurrent requests, is at most the stock of the line's product at
\* the moment of the write.
C3_WrittenWithinStock ==
  [][\A x \in shopping_cart' :
       x \notin shopping_cart =>
         x.quantity <= products'[x.product_id].stock_quantity]_vars

RECURSIVE SumQuantity(_)
SumQuantity(rows) ==
  IF rows = {} THEN 0
  ELSE LET x == CHOOSE y \in rows : TRUE
       IN  x.quantity + SumQuantity(rows \ {x})

RECURSIVE SumRequested(_)
SumRequested(ps) ==
  IF ps = {} THEN 0
  ELSE LET p == CHOOSE y \in ps : TRUE
       IN  AddQuantity(req[p]).v + SumRequested(ps \ {p})

\* C4: when all of the concurrent addToCart calls for one (U, P) on stock S
\* have answered: if their quantities sum to S, all succeeded and the cart
\* holds S of P; if they sum to S + 1, exactly one failed and the cart holds
\* at most S of P.
C4_ConcurrentAdds ==
  (\A p \in Procs : pc[p] = "done") =>
    LET S      == products["p1"].stock_quantity
        sum    == SumRequested(Procs)
        final  == SumQuantity(LinesOf(shopping_cart, "u1", "p1"))
        failed == {p \in Procs : res[p].status # 201}
    IN  /\ sum = S => (failed = {} /\ final = S)
        /\ sum = S + 1 => (Cardinality(failed) = 1 /\ final <= S)

\* C5: the cart table holds at most one line per (user, product).
C5_OneLinePerUserProduct ==
  \A x, y \in shopping_cart :
    (x.user_id = y.user_id /\ x.product_id = y.product_id) => x = y

\* C6: updateCartItem sets the quantity absolutely. When requests run one
\* after the other, updateCartItem(U, lineId, q) on a line U owns, with
\* 1 <= q <= stock, succeeds, and a successful one leaves that line with
\* quantity exactly q and every other line as it was.
C6_UpdateIsAbsolute ==
  \A p \in Single :
    LET r     == req[p]
        owned == {x \in pre : x.id = r.id /\ x.user_id = r.userId}
    IN  Done(p, "updateCartItem") =>
          /\ res[p].status = 200 =>
               /\ r.quantity.v >= 1
               /\ \E e \in owned :
                    /\ r.quantity.v <= products[e.product_id].stock_quantity
                    /\ shopping_cart =
                         (pre \ {e}) \cup {[e EXCEPT !.quantity = r.quantity.v]}
          /\ (/\ ~UpdateInvalid(r)
              /\ \E e \in owned :
                   r.quantity.v <= products[e.product_id].stock_quantity)
             => res[p].status = 200

\* a line holding more than q was updated to q
C6_Witness ==
  \E p \in Single :
    /\ Done(p, "updateCartItem") /\ res[p].status = 200
    /\ \E e \in pre, x \in shopping_cart :
         /\ e.id = req[p].id /\ x.id = e.id
         /\ e.quantity > req[p].quantity.v
         /\ x.quantity = req[p].quantity.v

\* the lines of the users other than userId
OthersLines(rows, userId) == {x \in rows : x.user_id # userId}

\* C7: ownership isolation. No step of a request made as user U changes or
\* deletes a line of another user, a cart returned to U holds lines of U
\* only, and updateCartItem as U on a line another user owns answers with
\* the not-found error.
C7_OwnershipIsolation ==
  [][\A p \in Procs :
       pc'[p] # pc[p] =>
         LET u == req'[p].userId
         IN  /\ OthersLines(shopping_cart', u) = OthersLines(shopping_cart, u)
             /\ res'[p].hasCart =>
                  \A i \in res'[p].cart.items :
                    \E x \in shopping_cart : x.id = i.id /\ x.user_id = u
             /\ (/\ pc[p] = "upd_item"
                 /\ \E x \in shopping_cart : x.id = req[p].id /\ x.user_id # u)
                => (res'[p].status = 404 /\ res'[p].error = ErrItem)]_vars

\* updateCartItem on another user's line was answered not found, the line is in place
C7_Witness ==
  \E p \in Procs :
    /\ Done(p, "updateCartItem")
    /\ res[p].status = 404 /\ res[p].error = ErrItem
    /\ \E x \in shopping_cart : x.id = req[p].id /\ x.user_id # req[p].userId

RECURSIVE SumLines(_)
SumLines(rows) ==
  IF rows = {} THEN 0
  ELSE LET x == CHOOSE y \in rows : TRUE
       IN  x.quantity * products[x.product_id].price + SumLines(rows \ {x})

\* C8: every cart returned by getCart, addToCart, updateCartItem or
\* removeFromCart lists the user's lines and has total equal to the sum of
\* line quantity times the product's price at the time of the read.
C8_TotalUsesCurrentPrice ==
  [][\A p \in Single :
       (pc[p] # "done" /\ pc'[p] = "done" /\ res'[p].hasCart) =>
         LET lines == {x \in shopping_cart : x.user_id = req[p].userId}
         IN  /\ res'[p].cart.total = SumLines(lines)
             /\ {[id |-> i.id, quantity |-> i.quantity] : i \in res'[p].cart.items}
                  = {[id |-> x.id, quantity |-> x.quantity] : x \in lines}
             /\ \A i \in res'[p].cart.items :
                  i.product.price = products[i.product.id].price]_vars

\* getCart has answered, a price has changed since and no line has: the
\* total of the same lines is now another one
C8_Witness ==
  \E p \in Single :
    /\ Done(p, "getCart") /\ res[p].hasCart
    /\ shopping_cart = pre
    /\ LET lines == {x \in shopping_cart : x.user_id = req[p].userId}
       IN  /\ {[id |-> i.id, quantity |-> i.quantity] : i \in res[p].cart.items}
                = {[id |-> x.id, quantity |-> x.quantity] : x \in lines}
           /\ res[p].cart.total # SumLines(lines)

\* C9: removeFromCart is idempotent. When requests run one after the other,
\* removeFromCart(U, lineId) answers with success and the cart, the cart
\* table is the one before without the line of that id owned by U, and so
\* the same as before when there is no such line.
C9_RemoveIsIdempotent ==
  \A p \in Single :
    Done(p, "removeFromCart") =>
      /\ res[p].status = 200 /\ res[p].hasCart
      /\ shopping_cart =
           {x \in pre : ~(x.id = req[p].id /\ x.user_id = req[p].userId)}
      /\ \A i \in res[p].cart.items : i.id # req[p].id

\* a removal of a line that had been removed before (or is not the user's)
\* has answered with success and left the other lines in place
C9_Witness ==
  \E p \in Single :
    /\ Done(p, "removeFromCart") /\ res[p].status = 200
    /\ req[p].id < nextId
    /\ \A x \in pre : ~(x.id = req[p].id /\ x.user_id = req[p].userId)
    /\ pre # {} /\ shopping_cart = pre

\* C10: when requests run one after the other, clearCart(U) succeeds, leaves
\* no line of U and every line of the other users as it was, and getCart(U)
\* on a cart without lines of U returns no items and total 0.
C10_ClearEmptiesCart ==
  \A p \in Single :
    /\ Done(p, "clearCart") =>
         /\ res[p].status = 200 /\ res[p].message = MsgCleared
         /\ shopping_cart = OthersLines(pre, req[p].userId)
    /\ (Done(p, "getCart") /\ pre = OthersLines(pre, req[p].userId)) =>
         /\ res[p].status = 200 /\ res[p].hasCart
         /\ res[p].cart.items = {} /\ res[p].cart.total = 0

\* a cart with lines of both users was cleared for one of them
C10_Witness ==
  \E p \in Single :
    /\ Done(p, "clearCart") /\ res[p].status = 200
    /\ pre # OthersLines(pre, req[p].userId)
    /\ OthersLines(pre, req[p].userId) # {}
    /\ shopping_cart = OthersLines(pre, req[p].userId)

\* C12: when requests run one after the other, updateCartItem with a zero
\* or negative quantity answers with the validation error and leaves the
\* cart table, the targeted line included, as it was.
C12_UpdateRejectsNonPositive ==
  \A p \in Single :
    (/\ Done(p, "updateCartItem")
     /\ req[p].quantity.t = "number"
     /\ req[p].quantity.v <= 0)
    => /\ res[p].status = 400
       /\ res[p].error = ErrInvalidUpdate
       /\ shopping_cart = pre

\* an update to zero of a line the user owns was refused, the line is in place
C12_Witness ==
  \E p \in Single :
    /\ Done(p, "updateCartItem") /\ res[p].error = ErrInvalidUpdate
    /\ req[p].quantity = Num(0)
    /\ \E e \in shopping_cart :
         e.id = req[p].id /\ e.user_id = req[p].userId /\ e \in pre /\ e.quantity >= 1

Mutations == {"addToCart", "updateCartItem", "removeFromCart", "clearCart"}

\* C13: when a mutation request has been answered with an error (status 400
\* or above), the cart table is the one the request found.
C13_ErrorLeavesNoMutation ==
  \A p \in Single :
    (pc[p] = "done" /\ req[p].op \in Mutations /\ res[p].status >= 400)
      => shopping_cart = pre

\* C14: a not-found answer is given only for what is not there: by addToCart
\* when the product id references no product, by updateCartItem when the
\* user owns no line of that id; a store error in these lookups is not
\* answered as not found.
C14_NotFoundMeansNotFound ==
  \A p \in Single :
    /\ (Done(p, "addToCart") /\ res[p].status = 404)
         => req[p].product_id \notin Products
    /\ (Done(p, "updateCartItem") /\ res[p].status = 404)
         => /\ res[p].error = ErrItem
            /\ \A x \in pre : ~(x.id = req[p].id /\ x.user_id = req[p].userId)

\* C15: stock comparisons are strict. When requests run one after the other,
\* a well-formed addToCart on an existing product succeeds exactly when the
\* compared quantity (q without a line, the line's quantity plus q with one)
\* is at most the stock, a well-formed updateCartItem on an owned line
\* succeeds exactly when q is at most the stock, and each otherwise answers
\* with the insufficient-stock error.
C15_StockComparisonsStrict ==
  \A p \in Single :
    LET r == req[p]
    IN  /\ (Done(p, "addToCart") /\ ~AddInvalid(r) /\ r.product_id \in Products) =>
             LET S        == products[r.product_id].stock_quantity
                 before   == LinesOf(pre, r.userId, r.product_id)
                 compared == {AddQuantity(r).v} \cup
                             {e.quantity + AddQuantity(r).v : e \in before}
             IN  /\ res[p].status = 201 <=> \A c \in compared : c <= S
                 /\ res[p].status # 201 =>
                      (res[p].status = 400 /\ res[p].error = ErrStock)
        /\ (Done(p, "updateCartItem") /\ ~UpdateInvalid(r)) =>
             \A e \in {x \in pre : x.id = r.id /\ x.user_id = r.userId} :
               LET S == products[e.product_id].stock_quantity
               IN  /\ res[p].status = 200 <=> r.quantity.v <= S
                   /\ res[p].status # 200 =>
                        (res[p].status = 400 /\ res[p].error = ErrStock)

\* an update to exactly the stock has succeeded on a line that held less,
\* beside a line of another product that holds exactly that product's stock
C15_Witness ==
  \E p \in Single :
    /\ Done(p, "updateCartItem") /\ res[p].status = 200
    /\ \E x, y \in shopping_cart :
         /\ x.id = req[p].id
         /\ x.quantity = req[p].quantity.v
         /\ x.quantity = products[x.product_id].stock_quantity
         /\ x \notin pre
         /\ \E e \in pre : e.id = x.id /\ e.quantity < x.quantity
         /\ y.product_id # x.product_id /\ y \in pre
         /\ y.quantity = products[y.product_id].stock_quantity

\* the answer each mutation gives when its write step fails
WriteFailed(op) ==
  CASE op = "addToCart"      -> ErrorRes(500, ErrAdd)
    [] op = "updateCartItem" -> ErrorRes(500, ErrUpdate)
    [] op = "removeFromCart" -> ErrorRes(500, ErrRemove)

\* C16: when the write of addToCart, updateCartItem or removeFromCart has
\* committed and the re-read for the response fails, the answer differs
\* from the one given when the write itself failed.
C16_RereadFailureDistinct ==
  \A p \in Single :
    (/\ pc[p] = "done"
     /\ req[p].op \in {"addToCart", "updateCartItem", "removeFromCart"}
     /\ shopping_cart # pre
     /\ res[p].status >= 400)
    => res[p] # WriteFailed(req[p].op)

\* a quantity counted in steps of 1/Scale is a positive integer
PositiveInteger(q) == q.t = "number" /\ q.v > 0 /\ q.v % Scale = 0

\* C11: an addToCart call whose quantity is not a positive integer passes
\* no store call and is answered with the validation error, and a call with
\* a positive integer quantity whose product id references no product is
\* answered with the not-found error; in both cases the cart table is the
\* one the request found.
C11_AddPreconditions ==
  \A p \in Single :
    req[p].op = "addToCart" =>
      LET r == req[p]
      IN  /\ (~PositiveInteger(r.quantity) /\ pc[p] # "add_product")
               => /\ pc[p] = "done"
                  /\ res[p].status = 400
                  /\ res[p].error = ErrInvalidAdd
                  /\ shopping_cart = pre
          /\ (/\ PositiveInteger(r.quantity)
              /\ r.product_id \notin Products \cup {""}
              /\ pc[p] = "done")
               => /\ res[p].status = 404
                  /\ res[p].error = ErrProduct
                  /\ shopping_cart = pre

\* C17: every cart line has quantity at least 1 (Scale steps of 1/Scale).
C17_QuantityAtLeastOne == \A x \in shopping_cart : x.quantity >= Scale

\* C18: authenticateToken calls next() only after a header with a token
\* was present, JWT_SECRET was defined, the token verified, the profile
\* lookup gave a profile and the user lookup gave a user, and otherwise
\* sends exactly one 401 or 500 response and does not call next(); isAdmin
\* calls next() only when req.profile is set with role admin and otherwise
\* sends one 401 or 403; the handler behind both is reached only by a
\* verified user whose profile has the admin role.
C18_AuthGate ==
  /\ auth.authNext + auth.authSent <= 1
  /\ auth.adminNext + auth.adminSent <= 1
  /\ auth.authNext = 1 =>
       /\ auth.header = "bearer" /\ auth.secret /\ auth.valid
       /\ auth.profileResult \in Roles /\ auth.userResult = "user"
  /\ (/\ auth.chain # "adminOnly"
      /\ auth.pc \in {"admin", "handler", "responded"}
      /\ auth.authNext = 0)
       => auth.authSent = 1 /\ auth.status \in {401, 500}
  /\ auth.adminNext = 1 => auth.profile = "admin"
  /\ (/\ auth.pc \in {"handler", "responded"}
      /\ auth.adminNext = 0
      /\ auth.chain = "adminOnly" \/ (auth.chain = "both" /\ auth.authNext = 1))
       => auth.adminSent = 1 /\ auth.status \in {401, 403}
  /\ (auth.pc = "handler" /\ auth.chain = "both") =>
       /\ auth.authNext = 1 /\ auth.adminNext = 1
       /\ auth.header = "bearer" /\ auth.secret /\ auth.valid
       /\ auth.userResult = "user" /\ auth.profileResult = "admin"
       /\ auth.user = auth.userId /\ auth.profile = "admin"
       /\ auth.authSent = 0 /\ auth.adminSent = 0

\* a request with a verified token of an admin has reached the handler
\* behind both middleware
C18_Witness ==
  /\ auth.pc = "handler" /\ auth.chain = "both"
  /\ auth.authNext = 1 /\ auth.adminNext = 1

\* the elements of a list
Range(list) == {list[i] : i \in DOMAIN list}

\* C19: once the fetch has completed, the displayed list holds exactly the
\* fetched products that match the current category and availability
\* filters, each once, in the order of the current sortBy.
C19_DisplayedIsFilteredFetched ==
  page.pc = "ready" =>
    LET shown == page.products
        want  == {item \in Range(page.fetched) : Matches(item, page.activeFilters)}
    IN  /\ Range(shown) = want
        /\ Len(shown) = Cardinality(want)
        /\ \A i \in 1..(Len(shown) - 1) :
             Compare(shown[i], shown[i + 1], page.activeFilters.sortBy) <= 0

====
